---- MODULE Spec2Model ----
\* Gokoban: the level parser, the level controller (occupancy grid, animation
\* queue, animating latch, step counter), the rule engine (step, push, fall,
\* elevate, lower, pad activation) and the part of the game controller that
\* gates input (menu, gopherLocked, restart).
EXTENDS Integers, Sequences, FiniteSets, TLC

\* ------------------------------------------------------------------ bounds

\* step() is offered only while the step counter is below MaxSteps
MaxSteps == 5
\* a scheduler tick covers a distance of 1 or of MaxDelta grid units
MaxDelta == 4
\* the render loop polls the input events once per frame: at most MaxEvents
\* events are handled between two scheduler ticks
MaxEvents == 2
MaxSettle == 12
\* the level texts handed to the parser alone have at most MaxRows rows
MaxRows == 2
\* the game that moves between levels loads the first MaxLevels level files
MaxLevels == 3
\* and offers step() in it only while the step counter is below MaxPlay
MaxPlay == 2

\* ------------------------------------------------------------------ glyphs

START == "s"
BLOCK == "]"
BOX == "x"
PAD == "o"
ELEVATOR == "e"
ELEVATOR_SHAFT == "-"
NONE == "."

ADD_TO_NFLOORS == 2
\* the floor an ejected object is animated to (pfall.y = -20)
OutOfGameY == 0 - 20

\* ------------------------------------------------------------------ objects

\* An object is a record [t, n]: its variant and its number among the objects
\* of that variant, in the order ParseLevel creates them.
Nil == [t |-> "nil", n |-> 0]
Obj(t, n) == [t |-> t, n |-> n]

\* MapObj.IsPushable: NewBox and NewGopher set pushable, the others clear it
IsPushable(o) == o.t \in {"box", "gopher"}

\* ------------------------------------------------------------------ levels

\* A level text after strings.Split(data, "\n") and strings.Fields(row): a
\* sequence of rows, each a sequence of tokens, each a sequence of glyphs
\* (floor 0 first).
\*   ]s ]x ]o ]      push the box onto the pad, off it again, over the edge
LevelPad ==
    << << <<"]", "s">>, <<"]", "x">>, <<"]", "o">>, <<"]">> >> >>
\*   ]s ]x ]o ]o      two pads and one box
LevelTwoPads ==
    << << <<"]", "s">>, <<"]", "x">>, <<"]", "o">>, <<"]", "o">> >> >>
\*   ]s e- ]]x ]]o    an elevator up to a ledge with a box and a pad
LevelElevator ==
    << << <<"]", "s">>, <<"e", "-">>, <<"]", "]", "x">>, <<"]", "]", "o">> >> >>
\*   ] ] ] ]          the gopher can walk round the box and push it onto
\*   ] ]x ]s ]]       its own start cell, and then against the wall
LevelRing ==
    << << <<"]">>, <<"]">>, <<"]">>, <<"]">> >>,
       << <<"]">>, <<"]", "x">>, <<"]", "s">>, <<"]", "]">> >> >>

\*   ]s ]xxx e---      a pile of three boxes beside a shaft of three floors
LevelShaft ==
    << << <<"]", "s">>, <<"]", "x", "x", "x">>, <<"e", "-", "-", "-">> >> >>

\*   ]]s ]]x ]e-o       an elevator that lifts what stands on it to a pad
LevelLift ==
    << << <<"]", "]", "s">>, <<"]", "]", "x">>, <<"]", "e", "-", "o">> >> >>

\*   ]] ]] ]]   ]]  ]]      a pile of three boxes whose middle box is held
\*   ]] ]s ]xxx ].] ]]]     back by a block; walls all round
\*   ]] ]] ]]   ]]  ]]
LevelBarrier ==
    << << <<"]", "]">>, <<"]", "]">>, <<"]", "]">>, <<"]", "]">>, <<"]", "]">> >>,
       << <<"]", "]">>, <<"]", "s">>, <<"]", "x", "x", "x">>, <<"]", ".", "]">>,
          <<"]", "]", "]">> >>,
       << <<"]", "]">>, <<"]", "]">>, <<"]", "]">>, <<"]", "]">>, <<"]", "]">> >> >>

\*   ]]s ]e--]            an elevator with a shaft of two floors under a block
LevelHoist ==
    << << <<"]", "]", "s">>, <<"]", "e", "-", "-", "]">> >> >>

\*   ]]s]]                one column: two blocks, the gopher, two blocks
LevelColumn ==
    << << <<"]", "]", "s", "]", "]">> >> >>

\*   ] ]s ]               three columns: a block on either side of the start
LevelWalk ==
    << << <<"]">>, <<"]", "s">>, <<"]">> >> >>

\*   ] ]x                 no start position: l.gopher stays nil and InitLevel
\*                        dereferences it, so the game never starts on this one
LevelNoStart ==
    << << <<"]">>, <<"]", "x">> >> >>

\*   ]s ]s                two start positions
LevelTwoStarts ==
    << << <<"]", "s">>, <<"]", "s">> >> >>

\*   ]]]] ]]s e-- ]]] ]]]]   an elevator that lifts the gopher two floors to a
\*                            ledge, between two walls
LevelDescent ==
    << << <<"]", "]", "]", "]">>, <<"]", "]", "s">>, <<"e", "-", "-">>,
          <<"]", "]", "]">>, <<"]", "]", "]", "]">> >> >>

\*   ] ]se ]              the gopher starts directly beneath an elevator
LevelCanopy ==
    << << <<"]">>, <<"]", "s", "e">>, <<"]">> >> >>

Levels ==
    << LevelPad, LevelTwoPads, LevelElevator, LevelRing, LevelShaft, LevelLift,
       LevelBarrier, LevelHoist, LevelColumn, LevelWalk, LevelTwoStarts,
       LevelDescent, LevelCanopy >>

\* ------------------------------------------------------------------ parser

Max(a, b) == IF a >= b THEN a ELSE b

RECURSIVE MaxTokenLen(_, _)
\* the longest token of the tokens from position n on, at least m
MaxTokenLen(toks, m) ==
    IF toks = <<>> THEN m
    ELSE MaxTokenLen(Tail(toks), Max(m, Len(Head(toks))))

RECURSIVE Flatten(_)
Flatten(ss) == IF ss = <<>> THEN <<>> ELSE Head(ss) \o Flatten(Tail(ss))

\* ". " + row + " ." and strings.Fields of it
PadRow(row) == <<<<NONE>>>> \o row \o <<<<NONE>>>>

\* rows padded without the leading padding row
PaddedRowsNoTop(text) ==
    LET rows == [i \in 1..Len(text) |-> PadRow(text[i])]
        ncols == Len(rows[1])
        padding_row == [j \in 1..ncols |-> <<NONE>>]
    IN  rows \o <<padding_row>>

\* the rows ParseLevel iterates over: a padding row, the padded rows, a padding row
PaddedRows(text) ==
    LET rows == [i \in 1..Len(text) |-> PadRow(text[i])]
        ncols == Len(rows[1])
        padding_row == [j \in 1..ncols |-> <<NONE>>]
    IN  <<padding_row>> \o rows \o <<padding_row>>

\* the cells of the triple loop of ParseLevel in the order it visits them
ScanCells(rows) ==
    Flatten([i \in 1..Len(rows) |->
        Flatten([j \in 1..Len(rows[i]) |->
            [k \in 1..Len(rows[i][j]) |->
                [loc |-> <<i - 1, j - 1, k - 1>>, c |-> rows[i][j][k],
                 cell |-> rows[i][j]]]])])

GlyphType(c) ==
    CASE c = START -> "gopher"
      [] c = BLOCK -> "block"
      [] c = BOX -> "box"
      [] c = PAD -> "pad"
      [] c = ELEVATOR -> "elevator"
      [] OTHER -> "nil"

\* a shaft that is taken to reach the top of the token
ShaftTopToEnd(cell, high) == Len(cell) - 1

RECURSIVE ShaftTop(_, _)
\* for high = k; (high+1) < len(cell) && cell[high+1] == "-"; high++
\* (cell is indexed from 1 here, so cell[high+1] of the code is cell[high + 2])
ShaftTop(cell, high) ==
    IF (high + 1) < Len(cell) /\ cell[high + 2] = ELEVATOR_SHAFT
    THEN ShaftTop(cell, high + 1)
    ELSE high

\* the number of cells of variant t among the first n scanned
CountType(scan, n, t) == Cardinality({m \in 1..n : GlyphType(scan[m].c) = t})

RECURSIVE SeqOfLocsPrepended(_, _, _)
\* the locations of the scanned cells of variant t, each put before the earlier
SeqOfLocsPrepended(scan, n, t) ==
    IF n > Len(scan) THEN <<>>
    ELSE SeqOfLocsPrepended(scan, n + 1, t)
         \o (IF GlyphType(scan[n].c) = t THEN <<scan[n].loc>> ELSE <<>>)

RECURSIVE SeqOfLocs(_, _, _)
\* the locations of the scanned cells of variant t, in scan order (append)
SeqOfLocs(scan, n, t) ==
    IF n > Len(scan) THEN <<>>
    ELSE (IF GlyphType(scan[n].c) = t THEN <<scan[n].loc>> ELSE <<>>)
         \o SeqOfLocs(scan, n + 1, t)

\* LevelData as ParseLevel leaves it; grid holds the cells whose obj is not
\* nil, the other cells of the nrows x ncols x nfloors lattice are empty.
\* failed: a row holds more tokens than the first one, so that ld.grid[i][j]
\* is indexed out of range. err: the error returned, always nil (return ld, nil).
ParseLevel(text) ==
    LET rows == PaddedRows(text)
        ncols == Len(rows[1])
        nrows == Len(rows)
        nfloors == MaxTokenLen(Flatten(text), 1) + ADD_TO_NFLOORS
        scan == ScanCells(rows)
        last(l) == CHOOSE n \in 1..Len(scan) :
                       /\ scan[n].loc = l /\ GlyphType(scan[n].c) # "nil"
                       /\ \A m \in 1..Len(scan) :
                              scan[m].loc = l /\ GlyphType(scan[m].c) # "nil" => m <= n
        elevs == {n \in 1..Len(scan) : GlyphType(scan[n].c) = "elevator"}
    IN  [nrows |-> nrows, ncols |-> ncols, nfloors |-> nfloors,
         grid |-> [l \in {scan[n].loc : n \in {m \in 1..Len(scan) :
                                                    GlyphType(scan[m].c) # "nil"}} |->
                     LET n == last(l)
                         t == GlyphType(scan[n].c)
                     IN  Obj(t, CountType(scan, n, t))],
         gopherInit |-> LET s == SeqOfLocs(scan, 1, "gopher")
                        IN  IF s = <<>> THEN <<0, 0, 0>> ELSE s[Len(s)],
         boxesInit |-> SeqOfLocs(scan, 1, "box"),
         pads |-> SeqOfLocs(scan, 1, "pad"),
         low |-> [e \in 1..Cardinality(elevs) |->
                    LET n == CHOOSE m \in elevs : CountType(scan, m, "elevator") = e
                    IN  scan[n].loc[3]],
         high |-> [e \in 1..Cardinality(elevs) |->
                    LET n == CHOOSE m \in elevs : CountType(scan, m, "elevator") = e
                    IN  ShaftTop(scan[n].cell, scan[n].loc[3])],
         failed |-> \E i \in 1..Len(rows) : Len(rows[i]) > ncols,
         err |-> FALSE]

\* ------------------------------------------------------------------ state

\* The state of the program as one record, so that the handlers below are
\* operators from state to state:
\*   data            LevelData without its grid, and the Level's object lists
\*                   (of the level g.leveln, the variable leveln)
\*   grid            LevelData.grid[z][x][y].obj, for the cells where it is not nil
\*   loc             MapObj.loc of the gopher, the boxes and the elevators
\*   ejected         the object was last animated with delete = true, so that
\*                   animate cleared its cell and wrote it nowhere
\*   boxOn           the box's light has the colour boxLightColorOn
\*   toAnimate       Level.toAnimate
\*   animating, resetAnim                     fields of Level
\*   gopherLocked, steps, leveln              fields of GokobanGame
\*   lastUnlocked    g.userData.LastUnlockedLevel
\*   menuVisible     g.menu.Visible()
\*   restartEnabled  g.restartButton.Enabled()
\*   crashed         the process died of an index out of range
\*   lcPads          what each pad location held when game.LevelComplete() was
\*                   last called (NoSignal before the first call)
\*   fired           the callbacks the last Update ran, in the order it ran them:
\*                   the animation's seq and stale
\*   seqNo           the seq of the next animation queued
\* An animation of toAnimate carries, beside its object, target, remaining
\* distance and callback, its place seq in the order of queueing among the
\* pending ones, and stale: a Restart has happened since it was queued.

NoSignal == <<>>

Rel(l, zd, xd, yd) == <<l[1] + zd, l[2] + xd, l[3] + yd>>
SetY(l, y) == <<l[1], l[2], y>>
Abs(n) == IF n < 0 THEN 0 - n ELSE n
Dist(a, b) == Abs(a[1] - b[1]) + Abs(a[2] - b[2]) + Abs(a[3] - b[3])

\* an index into grid[z][x][y] is in range
InGrid(S, l) ==
    /\ 0 <= l[1] /\ l[1] < S.data.nrows
    /\ 0 <= l[2] /\ l[2] < S.data.ncols
    /\ 0 <= l[3] /\ l[3] < S.data.nfloors
Crash(S) == [S EXCEPT !.crashed = TRUE]

\* LevelData.Get, LevelData.IsPad
Get(S, l) == IF l \in DOMAIN S.grid THEN S.grid[l] ELSE Nil
\* LevelData.Set on the grid g
Set(g, l, o) ==
    IF o = Nil THEN [x \in DOMAIN g \ {l} |-> g[x]]
    ELSE [x \in DOMAIN g \cup {l} |-> IF x = l THEN o ELSE g[x]]
IsPad(S, l) == \E i \in 1..Len(S.data.pads) : S.data.pads[i] = l

\* a completion callback: which closure it is and what the closure captured
Callback(kind, oldloc, toFall, playSound) ==
    [kind |-> kind, oldloc |-> oldloc, toFall |-> toFall, playSound |-> playSound]
NoCallback == Callback("nil", <<0, 0, 0>>, <<>>, FALSE)

\* an animate that queues the animation and leaves the grid as it is
animateDeferred(S, obj, dest, delete, cb) ==
    [S EXCEPT !.toAnimate = Append(@, [obj |-> obj, dest |-> dest,
                                       rem |-> Dist(S.loc[obj], dest), cb |-> cb,
                                       seq |-> S.seqNo, stale |-> FALSE]),
              !.seqNo = @ + 1]

\* every animation of the list q is marked as queued before a Restart
MarkStale(q) == [i \in 1..Len(q) |-> [q[i] EXCEPT !.stale = TRUE]]

\* animate: queue the animation, then move the object in the grid. The
\* animation starts at the object's location and has Dist to travel.
animate(S, obj, dest, delete, cb) ==
    LET oloc == S.loc[obj]
        anim == [obj |-> obj, dest |-> dest, rem |-> Dist(oloc, dest), cb |-> cb,
                 seq |-> S.seqNo, stale |-> FALSE]
        Q == [S EXCEPT !.toAnimate = Append(@, anim), !.seqNo = @ + 1]
    IN  IF delete
        THEN [Q EXCEPT !.grid = Set(@, oloc, Nil), !.ejected[obj] = TRUE]
        ELSE IF ~InGrid(S, dest) THEN Crash(Q)
        ELSE [Q EXCEPT !.grid = Set(Set(@, oloc, Nil), dest, obj),
                       !.loc[obj] = dest, !.ejected[obj] = FALSE]

\* SetPosition
SetPosition(S, obj, dest) ==
    [S EXCEPT !.grid = Set(Set(@, S.loc[obj], Nil), dest, obj),
              !.loc[obj] = dest, !.ejected[obj] = FALSE]

\* a levelComplete that returns at the first pad
levelCompleteFirstPad(S, i) ==
    IF i > Len(S.data.pads) THEN TRUE ELSE Get(S, S.data.pads[i]).t = "box"

RECURSIVE levelCompleteFrom(_, _)
\* for _, p := range pads: if Get(p) is not a *Box return false
levelCompleteFrom(S, i) ==
    IF i > Len(S.data.pads) THEN TRUE
    ELSE IF Get(S, S.data.pads[i]).t # "box" THEN FALSE
    ELSE levelCompleteFrom(S, i + 1)

levelComplete(S) == levelCompleteFrom(S, 1)

\* a LevelComplete that unlocks a level whichever level is being played
LevelCompleteAlways(S) ==
    [S EXCEPT !.lcPads = [i \in 1..Len(S.data.pads) |-> Get(S, S.data.pads[i])],
              !.lastUnlocked = @ + 1]

\* GokobanGame.LevelComplete: the signal as the level sees it, and
\* if g.userData.LastUnlockedLevel == g.leveln { g.userData.LastUnlockedLevel++ }
LevelComplete(S) ==
    [S EXCEPT !.lcPads = [i \in 1..Len(S.data.pads) |-> Get(S, S.data.pads[i])],
              !.lastUnlocked = IF @ = S.leveln THEN @ + 1 ELSE @]

\* boxOnPad
boxOnPad(S, box) ==
    IF ~S.boxOn[box] THEN
        LET T == [S EXCEPT !.boxOn[box] = TRUE]
        IN  IF levelComplete(T) THEN LevelComplete(T) ELSE T
    ELSE S

\* boxOffPad
boxOffPad(S, box) == IF S.boxOn[box] THEN [S EXCEPT !.boxOn[box] = FALSE] ELSE S

RECURSIVE posAfterFallScan(_, _)
\* for ; pos.y >= 0 && Get(pos) == nil; pos.y-- {}
posAfterFallScan(S, pos) ==
    IF pos[3] >= 0 /\ Get(S, pos) = Nil
    THEN posAfterFallScan(S, Rel(pos, 0, 0, 0 - 1))
    ELSE pos

\* a posAfterFallFrom without the final pos.y++
posAfterFallFromSunk(S, pos) == posAfterFallScan(S, Rel(pos, 0, 0, 0 - 1))

\* posAfterFallFrom
posAfterFallFrom(S, pos) == Rel(posAfterFallScan(S, Rel(pos, 0, 0, 0 - 1)), 0, 0, 1)

\* a fall that ejects an object landing on floor 1 as well
fallEjectsOnFloorOne(S, obj, playSound) ==
    LET A == [S EXCEPT !.animating = TRUE]
        pfall == posAfterFallFrom(S, S.loc[obj])
    IN  IF pfall[3] <= 1
        THEN animate([A EXCEPT !.gopherLocked = TRUE], obj, SetY(pfall, OutOfGameY),
                     TRUE, Callback("fallOut", <<0, 0, 0>>, <<>>, FALSE))
        ELSE animate(A, obj, pfall, FALSE,
                     Callback("fallIn", <<0, 0, 0>>, <<>>, playSound))

\* a fall that ejects without locking the player's input
fallUnlocked(S, obj, playSound) ==
    LET A == [S EXCEPT !.animating = TRUE]
        pfall == posAfterFallFrom(S, S.loc[obj])
    IN  IF pfall[3] = 0
        THEN animate(A, obj, SetY(pfall, OutOfGameY),
                     TRUE, Callback("fallOut", <<0, 0, 0>>, <<>>, FALSE))
        ELSE animate(A, obj, pfall, FALSE,
                     Callback("fallIn", <<0, 0, 0>>, <<>>, playSound))

\* fall
fall(S, obj, playSound) ==
    LET A == [S EXCEPT !.animating = TRUE]
        pfall == posAfterFallFrom(S, S.loc[obj])
    IN  IF pfall[3] = 0
        THEN animate([A EXCEPT !.gopherLocked = TRUE], obj, SetY(pfall, OutOfGameY),
                     TRUE, Callback("fallOut", <<0, 0, 0>>, <<>>, FALSE))
        ELSE animate(A, obj, pfall, FALSE,
                     Callback("fallIn", <<0, 0, 0>>, <<>>, playSound))

RECURSIVE getCargoFrom(_, _, _, _)
\* for y := 1; ; y++: the pushable objects stacked on the elevator; failed
\* when the scan leaves the grid
getCargoFrom(S, elev, y, cargo) ==
    LET l == Rel(S.loc[elev], 0, 0, y)
    IN  IF ~InGrid(S, l) THEN [cargo |-> cargo, failed |-> TRUE]
        ELSE IF Get(S, l) = Nil \/ ~IsPushable(Get(S, l))
             THEN [cargo |-> cargo, failed |-> FALSE]
        ELSE getCargoFrom(S, elev, y + 1, Append(cargo, Get(S, l)))

\* getCargo
getCargo(S, elev) == getCargoFrom(S, elev, 1, <<>>)

RECURSIVE spacesAbove(_, _, _, _, _)
\* for y := 1; spaces_above_cargo < max_elevation; y++: -1 when the scan
\* leaves the grid
spacesAbove(S, last, y, spaces, max_elevation) ==
    IF ~(spaces < max_elevation) THEN spaces
    ELSE LET l == Rel(S.loc[last], 0, 0, y)
         IN  IF ~InGrid(S, l) THEN 0 - 1
             ELSE IF Get(S, l) = Nil
                  THEN spacesAbove(S, last, y + 1, spaces + 1, max_elevation)
             ELSE spaces

RECURSIVE raiseCargo(_, _, _, _)
\* for i := len(cargo) - 1; i >= 0; i--: animate(c, up, false, nil)
raiseCargo(S, cargo, i, spaces) ==
    IF i < 1 \/ S.crashed THEN S
    ELSE raiseCargo(animate(S, cargo[i], Rel(S.loc[cargo[i]], 0, 0, spaces),
                            FALSE, NoCallback),
                    cargo, i - 1, spaces)

\* an elevate that takes the shaft to be one floor taller
elevatePastShaft(S, elev) ==
    LET max_elevation == S.data.high[elev.n] - S.loc[elev][3] + 1
        A == [S EXCEPT !.animating = TRUE]
        c == getCargo(A, elev)
    IN  IF c.failed \/ c.cargo = <<>> THEN Crash(A)
        ELSE LET last == c.cargo[Len(c.cargo)]
                 spaces == spacesAbove(A, last, 1, 0, max_elevation)
             IN  IF spaces < 0 THEN Crash(A)
                 ELSE LET R == raiseCargo(A, c.cargo, Len(c.cargo), spaces)
                      IN  IF R.crashed THEN R
                          ELSE animate(R, elev, Rel(R.loc[elev], 0, 0, spaces),
                                       FALSE,
                                       Callback("elevUp", <<0, 0, 0>>, <<>>, FALSE))

\* elevate
elevate(S, elev) ==
    LET max_elevation == S.data.high[elev.n] - S.loc[elev][3]
    IN  IF max_elevation > 0 THEN
            LET A == [S EXCEPT !.animating = TRUE]
                c == getCargo(A, elev)
            IN  IF c.failed \/ c.cargo = <<>> THEN Crash(A)
                ELSE LET last == c.cargo[Len(c.cargo)]
                         spaces == spacesAbove(A, last, 1, 0, max_elevation)
                     IN  IF spaces < 0 THEN Crash(A)
                         ELSE LET R == raiseCargo(A, c.cargo, Len(c.cargo), spaces)
                              IN  IF R.crashed THEN R
                                  ELSE animate(R, elev, Rel(R.loc[elev], 0, 0, spaces),
                                               FALSE,
                                               Callback("elevUp", <<0, 0, 0>>, <<>>, FALSE))
        ELSE S

RECURSIVE lowerScan(_, _, _)
\* for newloc.y = elev.loc.y - 1; newloc.y >= elev.low && Get(newloc) == nil; newloc.y--
lowerScan(S, elev, newloc) ==
    IF newloc[3] >= S.data.low[elev.n] /\ Get(S, newloc) = Nil
    THEN lowerScan(S, elev, Rel(newloc, 0, 0, 0 - 1))
    ELSE newloc

\* a lowerElev that goes down one floor at a time
lowerElevOneFloor(S, elev) ==
    LET below == Rel(S.loc[elev], 0, 0, 0 - 1)
    IN  IF below[3] >= S.data.low[elev.n] /\ Get(S, below) = Nil
        THEN animate(S, elev, below, FALSE,
                     Callback("lowerElev", <<0, 0, 0>>, <<>>, FALSE))
        ELSE S

\* lowerElev
lowerElev(S, elev) ==
    LET newloc == Rel(lowerScan(S, elev, Rel(S.loc[elev], 0, 0, 0 - 1)), 0, 0, 1)
    IN  IF newloc[3] # S.loc[elev][3]
        THEN animate(S, elev, newloc, FALSE,
                     Callback("lowerElev", <<0, 0, 0>>, <<>>, FALSE))
        ELSE S

\* afterNewFloor
afterNewFloor(S, obj) ==
    LET A == [S EXCEPT !.animating = FALSE]
        below == Rel(S.loc[obj], 0, 0, 0 - 1)
    IN  IF ~InGrid(S, below) THEN Crash(A)
        ELSE IF Get(S, below).t = "elevator" THEN elevate(A, Get(S, below))
        ELSE IF obj.t = "box" /\ IsPad(S, S.loc[obj]) THEN boxOnPad(A, obj)
        ELSE A

\* afterMove
afterMove(S, obj) ==
    LET A == [S EXCEPT !.animating = FALSE]
        below == Rel(S.loc[obj], 0, 0, 0 - 1)
    IN  IF ~InGrid(S, below) THEN Crash(A)
        ELSE IF Get(S, below) = Nil THEN fall(A, obj, TRUE)
        ELSE afterNewFloor(A, obj)

\* afterFallSound: plays a sound, after reading the cell below the object
afterFallSound(S, obj) ==
    IF ~InGrid(S, Rel(S.loc[obj], 0, 0, 0 - 1)) THEN Crash(S) ELSE S

RECURSIVE fallStack(_, _)
\* for box != nil && box.IsPushable(): box_above is read before box falls
fallStack(S, box) ==
    IF S.crashed \/ box = Nil \/ ~IsPushable(box) THEN S
    ELSE LET above == Rel(S.loc[box], 0, 0, 1)
         IN  IF ~InGrid(S, above) THEN Crash(S)
             ELSE fallStack(fall(S, box, TRUE), Get(S, above))

\* moveAwayFrom
moveAwayFrom(S, pos) ==
    LET below == Rel(pos, 0, 0, 0 - 1)
        above == Rel(pos, 0, 0, 1)
    IN  IF ~InGrid(S, below) THEN Crash(S)
        ELSE LET L == IF Get(S, below).t = "elevator"
                      THEN lowerElev(S, Get(S, below)) ELSE S
             IN  IF L.crashed THEN L
                 ELSE IF ~InGrid(L, above) THEN Crash(L)
                 ELSE LET ceil == Get(L, above)
                      IN  IF ceil = Nil THEN L
                          ELSE IF IsPushable(ceil) THEN fallStack(L, ceil)
                          ELSE IF ceil.t = "elevator" THEN
                              LET c == getCargo(L, ceil)
                              IN  IF c.failed THEN Crash(L)
                                  ELSE IF c.cargo = <<>> THEN lowerElev(L, ceil)
                                  ELSE L
                          ELSE L

RECURSIVE pushScanUnlatched(_, _, _, _, _, _)
\* a pushScan that forgets the barrier: a box above it moves when its own
\* destination is free
pushScanUnlatched(S, box, dest, toMove, toFall, foundBarrier) ==
    IF box = Nil \/ ~IsPushable(box)
    THEN [toMove |-> toMove, toFall |-> toFall, dest |-> dest, failed |-> FALSE]
    ELSE IF ~InGrid(S, dest) \/ ~InGrid(S, Rel(S.loc[box], 0, 0, 1))
    THEN [toMove |-> toMove, toFall |-> toFall, dest |-> dest, failed |-> TRUE]
    ELSE IF Get(S, dest) = Nil
    THEN pushScanUnlatched(S, Get(S, Rel(S.loc[box], 0, 0, 1)), Rel(dest, 0, 0, 1),
                           Append(toMove, box), toFall, FALSE)
    ELSE pushScanUnlatched(S, Get(S, Rel(S.loc[box], 0, 0, 1)), Rel(dest, 0, 0, 1),
                           toMove, Append(toFall, box), FALSE)

RECURSIVE pushScan(_, _, _, _, _, _)
\* the loop of pushBox over the piled boxes: toMove, toFall and the final dest;
\* failed when the cell above a box is outside the grid
pushScan(S, box, dest, toMove, toFall, foundBarrier) ==
    IF box = Nil \/ ~IsPushable(box)
    THEN [toMove |-> toMove, toFall |-> toFall, dest |-> dest, failed |-> FALSE]
    ELSE IF (foundBarrier = FALSE /\ ~InGrid(S, dest))
            \/ ~InGrid(S, Rel(S.loc[box], 0, 0, 1))
    THEN [toMove |-> toMove, toFall |-> toFall, dest |-> dest, failed |-> TRUE]
    ELSE IF foundBarrier = FALSE /\ Get(S, dest) = Nil
    THEN pushScan(S, Get(S, Rel(S.loc[box], 0, 0, 1)), Rel(dest, 0, 0, 1),
                  Append(toMove, box), toFall, foundBarrier)
    ELSE pushScan(S, Get(S, Rel(S.loc[box], 0, 0, 1)), Rel(dest, 0, 0, 1),
                  toMove, Append(toFall, box), TRUE)

RECURSIVE moveBoxes(_, _, _, _, _)
\* for i, box := range toMove: animate(box, {dest.z, dest.x, box.y}, false, cb)
moveBoxes(S, toMove, i, dest, toFall) ==
    IF i > Len(toMove) \/ S.crashed THEN S
    ELSE moveBoxes(
            animate(S, toMove[i], SetY(dest, S.loc[toMove[i]][3]), FALSE,
                    IF i = 1 THEN Callback("boxMoveFirst", <<0, 0, 0>>, toFall, FALSE)
                    ELSE Callback("boxMove", <<0, 0, 0>>, <<>>, FALSE)),
            toMove, i + 1, dest, toFall)

\* pushBox
pushBox(S, box, dest) ==
    LET leaving == IsPad(S, S.loc[box]) /\ ~IsPad(S, dest)
    IN  IF leaving /\ box.t # "box" THEN Crash(S)
        ELSE LET O == IF leaving THEN boxOffPad(S, box) ELSE S
                 r == pushScan(O, box, dest, <<>>, <<>>, FALSE)
             IN  IF r.failed THEN Crash(O)
                 ELSE moveBoxes(O, r.toMove, 1, r.dest, r.toFall)

\* a moveGopherTo that forgets to count the step
moveGopherToUncounted(S, pos) ==
    LET A == [S EXCEPT !.animating = TRUE]
        gopher == S.data.gopher
    IN  IF ~InGrid(S, Rel(pos, 0, 0, 0 - 1)) THEN Crash(A)
        ELSE animate(A, gopher, pos, FALSE,
                     Callback("gopherMove", S.loc[gopher], <<>>, FALSE))

\* moveGopherTo
moveGopherTo(S, pos) ==
    LET A == [S EXCEPT !.steps = @ + 1, !.animating = TRUE]
        gopher == S.data.gopher
    IN  IF ~InGrid(S, Rel(pos, 0, 0, 0 - 1)) THEN Crash(A)
        ELSE animate(A, gopher, pos, FALSE,
                     Callback("gopherMove", S.loc[gopher], <<>>, FALSE))

\* a wallBump that counts the rejected move as a step
wallBumpCounted(S) == [S EXCEPT !.steps = @ + 1]

\* wallBump: plays a sound
wallBump(S) == S

\* the body of step: what an accepted step does
stepAccepted(S, zd, xd) ==
    LET E == [S EXCEPT !.restartEnabled = TRUE]
        gopher == S.data.gopher
        cl == Rel(S.loc[gopher], zd, xd, 0)
        cnl == Rel(S.loc[gopher], 2 * zd, 2 * xd, 0)
    IN  IF ~InGrid(S, cl) THEN Crash(E)
        ELSE IF Get(S, cl) # Nil THEN
            IF IsPushable(Get(S, cl)) THEN
                IF ~InGrid(S, cnl) THEN Crash(E)
                ELSE IF Get(S, cnl) = Nil THEN
                    LET P == pushBox(E, Get(S, cl), cnl)
                    IN  IF P.crashed THEN P ELSE moveGopherTo(P, cl)
                ELSE wallBump(E)
            ELSE wallBump(E)
        ELSE moveGopherTo(E, cl)

\* a step that does not test the animating latch
stepUnlatched(S, zd, xd) == stepAccepted(S, zd, xd)

\* step
step(S, zd, xd) == IF ~S.animating THEN stepAccepted(S, zd, xd) ELSE S

RECURSIVE restartBoxes(_, _)
\* for i, box := range l.boxes: boxOffPad(box); SetPosition(box, boxesInit[i])
restartBoxes(S, i) ==
    IF i > Len(S.data.boxes) THEN S
    ELSE restartBoxes(SetPosition(boxOffPad(S, S.data.boxes[i]), S.data.boxes[i],
                                  S.data.boxesInit[i]),
                      i + 1)

RECURSIVE restartElevators(_, _)
\* for _, elev := range l.elevators: SetPosition(elev, lowLoc)
restartElevators(S, i) ==
    IF i > Len(S.data.elevators) THEN S
    ELSE LET elev == S.data.elevators[i]
         IN  restartElevators(
                 SetPosition(S, elev, SetY(S.loc[elev], S.data.low[elev.n])), i + 1)

\* Level.Restart
Restart(S) ==
    LET A == [S EXCEPT !.animating = FALSE, !.resetAnim = TRUE,
                       !.restartEnabled = FALSE, !.steps = 0,
                       !.toAnimate = MarkStale(@)]
        G == SetPosition(A, A.data.gopher, A.data.gopherInit)
    IN  restartElevators(restartBoxes(G, 1), 1)

\* a RestartLevel that frees the gopher whether the menu is open or not
RestartLevelFrees(S) == Restart([S EXCEPT !.gopherLocked = FALSE])

\* GokobanGame.RestartLevel
RestartLevel(S) ==
    Restart(IF ~S.menuVisible THEN [S EXCEPT !.gopherLocked = FALSE] ELSE S)

\* GokobanGame.ToggleMenu
ToggleMenu(S) ==
    IF S.menuVisible
    THEN [S EXCEPT !.menuVisible = FALSE, !.gopherLocked = FALSE]
    ELSE [S EXCEPT !.menuVisible = TRUE, !.gopherLocked = TRUE]

RECURSIVE fallAll(_, _, _)
\* for j, boxToFall := range toFall: l.fall(boxToFall, j == 0)
fallAll(S, toFall, j) ==
    IF j > Len(toFall) \/ S.crashed THEN S
    ELSE fallAll(fall(S, toFall[j], j = 1), toFall, j + 1)

\* callbacks that are dropped instead of run
RunCallbackDropped(S, obj, cb) == S

\* the completion callbacks that moveGopherTo, pushBox, fall, lowerElev and
\* elevate hand to animate, applied to the animated object
RunCallback(S, obj, cb) ==
    CASE cb.kind = "gopherMove" ->
            LET M == moveAwayFrom(S, cb.oldloc)
            IN  IF M.crashed THEN M ELSE afterMove(M, obj)
      [] cb.kind = "boxMove" -> afterMove(S, obj)
      [] cb.kind = "boxMoveFirst" ->
            LET M == afterMove(S, obj)
            IN  IF M.crashed THEN M ELSE fallAll(M, cb.toFall, 1)
      [] cb.kind = "fallOut" -> RestartLevel(S)
      [] cb.kind = "fallIn" ->
            LET F == IF cb.playSound THEN afterFallSound(S, obj) ELSE S
            IN  IF F.crashed THEN F ELSE afterNewFloor(F, obj)
      [] cb.kind = "elevUp" -> [S EXCEPT !.animating = FALSE]
      [] OTHER -> S

\* an Animation.Update that runs the callback of a finished animation and
\* still reports it as animating
AnimationUpdateLingers(S, anim, delta) ==
    IF anim.rem < delta
    THEN [state |-> RunCallback(
                        [S EXCEPT !.fired = Append(@, [seq |-> anim.seq,
                                                       stale |-> anim.stale])],
                        anim.obj, anim.cb),
          still_animating |-> TRUE, anim |-> [anim EXCEPT !.rem = 0]]
    ELSE [state |-> S, still_animating |-> TRUE,
          anim |-> [anim EXCEPT !.rem = @ - delta]]

\* Animation.Update: move toward the target by what this tick covers; when the
\* remaining distance is less than that, snap, fire the callback and report
\* that the animation is over.
AnimationUpdate(S, anim, delta) ==
    IF anim.rem < delta
    THEN [state |-> RunCallback(
                        [S EXCEPT !.fired = Append(@, [seq |-> anim.seq,
                                                       stale |-> anim.stale])],
                        anim.obj, anim.cb),
          still_animating |-> FALSE, anim |-> anim]
    ELSE [state |-> S, still_animating |-> TRUE,
          anim |-> [anim EXCEPT !.rem = @ - delta]]

RECURSIVE updateLoopBackward(_, _, _, _)
\* an Update loop that goes through the list from its end
updateLoopBackward(S, newToAnimate, i, delta) ==
    IF i > Len(newToAnimate) \/ S.crashed THEN S
    ELSE IF ~S.resetAnim THEN
        LET u == AnimationUpdate(S, newToAnimate[Len(newToAnimate) + 1 - i], delta)
        IN  updateLoopBackward(IF u.still_animating
                               THEN [u.state EXCEPT !.toAnimate = Append(@, u.anim)]
                               ELSE u.state,
                               IF u.state.resetAnim THEN MarkStale(newToAnimate)
                               ELSE newToAnimate,
                               i + 1, delta)
    ELSE updateLoopBackward(S, newToAnimate, i + 1, delta)

RECURSIVE updateLoopUnguarded(_, _, _, _)
\* an Update loop that does not test resetAnim before it updates an animation
updateLoopUnguarded(S, newToAnimate, i, delta) ==
    IF i > Len(newToAnimate) \/ S.crashed THEN S
    ELSE LET u == AnimationUpdate(S, newToAnimate[i], delta)
         IN  updateLoopUnguarded(IF u.still_animating
                                 THEN [u.state EXCEPT !.toAnimate = Append(@, u.anim)]
                                 ELSE u.state,
                                 IF u.state.resetAnim THEN MarkStale(newToAnimate)
                                 ELSE newToAnimate,
                                 i + 1, delta)

RECURSIVE updateLoop(_, _, _, _)
\* for _, anim := range newToAnimate: if !resetAnim, update and keep or drop
updateLoop(S, newToAnimate, i, delta) ==
    IF i > Len(newToAnimate) \/ S.crashed THEN S
    ELSE IF ~S.resetAnim THEN
        LET u == AnimationUpdate(S, newToAnimate[i], delta)
        IN  updateLoop(IF u.still_animating
                       THEN [u.state EXCEPT !.toAnimate = Append(@, u.anim)]
                       ELSE u.state,
                       IF u.state.resetAnim THEN MarkStale(newToAnimate)
                       ELSE newToAnimate,
                       i + 1, delta)
    ELSE updateLoop(S, newToAnimate, i + 1, delta)

\* Level.Update
Update(S, delta) ==
    LET R == IF S.resetAnim
             THEN [S EXCEPT !.resetAnim = FALSE, !.toAnimate = <<>>] ELSE S
    IN  updateLoop([R EXCEPT !.toAnimate = <<>>, !.fired = <<>>], R.toAnimate, 1, delta)

RECURSIVE Settle(_, _)
\* the render loop with no input: Update until nothing is pending, at most n times
Settle(S, n) ==
    IF n = 0 \/ S.crashed \/ (S.toAnimate = <<>> /\ ~S.resetAnim) THEN S
    ELSE Settle(Update(S, MaxDelta), n - 1)

\* Level.onKey for the key whose direction is d = <<zd, xd>>
KeyStep(S, d) == IF ~S.gopherLocked THEN step(S, d[1], d[2]) ELSE S

\* ------------------------------------------------------------------ construction

\* the cells of the grid in the order of NewLevel's loops over ld.grid
GridOrder(ld) ==
    [n \in 1..(ld.nrows * ld.ncols * ld.nfloors) |->
        <<(n - 1) \div (ld.ncols * ld.nfloors),
          ((n - 1) \div ld.nfloors) % ld.ncols,
          (n - 1) % ld.nfloors>>]

\* the objects of variant t met from cell n on: l.boxes, l.elevators
ObjectsOf(ld, order, n, t) ==
    LET met == SelectSeq(SubSeq(order, n, Len(order)),
                         LAMBDA l : l \in DOMAIN ld.grid /\ ld.grid[l].t = t)
    IN  [i \in 1..Len(met) |-> ld.grid[met[i]]]

\* NewLevel: the Level built on a LevelData; the pads leave the grid. crashed
\* when a pad lies on floor 0 (grid[i][j][k-1]) or ParseLevel failed.
NewLevel(ld) ==
    LET order == GridOrder(ld)
        gophers == ObjectsOf(ld, order, 1, "gopher")
        boxes == ObjectsOf(ld, order, 1, "box")
        elevators == ObjectsOf(ld, order, 1, "elevator")
        movable == {gophers[i] : i \in 1..Len(gophers)}
                   \cup {boxes[i] : i \in 1..Len(boxes)}
                   \cup {elevators[i] : i \in 1..Len(elevators)}
        at(o) == CHOOSE l \in DOMAIN ld.grid : ld.grid[l] = o
    IN  [data |-> [nrows |-> ld.nrows, ncols |-> ld.ncols, nfloors |-> ld.nfloors,
                   gopherInit |-> ld.gopherInit, boxesInit |-> ld.boxesInit,
                   pads |-> ld.pads, low |-> ld.low, high |-> ld.high,
                   gopher |-> IF gophers = <<>> THEN Nil ELSE gophers[Len(gophers)],
                   boxes |-> boxes, elevators |-> elevators,
                   blocks |-> {l \in DOMAIN ld.grid : ld.grid[l].t = "block"}],
         grid |-> [l \in {x \in DOMAIN ld.grid : ld.grid[x].t # "pad"} |-> ld.grid[l]],
         loc |-> [o \in movable |-> at(o)],
         ejected |-> [o \in movable |-> FALSE],
         boxOn |-> [o \in {boxes[i] : i \in 1..Len(boxes)} |-> FALSE],
         toAnimate |-> <<>>,
         animating |-> FALSE,
         resetAnim |-> FALSE,
         gopherLocked |-> FALSE,
         steps |-> 0,
         menuVisible |-> TRUE,
         restartEnabled |-> TRUE,
         crashed |-> ld.failed \/ \E i \in 1..Len(ld.pads) : ld.pads[i][3] = 0,
         lcPads |-> NoSignal,
         fired |-> <<>>,
         seqNo |-> 1,
         leveln |-> 0,
         lastUnlocked |-> 0]

\* main: InitLevel(LastLevel), which restarts the level, then gopherLocked = true
InitLevel(text) ==
    [RestartLevel(NewLevel(ParseLevel(text))) EXCEPT !.gopherLocked = TRUE]

\* ------------------------------------------------------------------ specification

\* the static part of each level of Levels, numbered from 0 like g.levels
LevelDataOf ==
    [n \in 0..(Len(Levels) - 1) |-> NewLevel(ParseLevel(Levels[n + 1])).data]

\* leveln is g.leveln, the level being played; events counts the input events
\* handled since the last Update; the other variables are the fields of the
\* state record described above; frame is the parity of the number of frames
\* run so far; settling says that the player has made the last input of the
\* run, after which only the render loop goes on; parsed is the level text that
\* LoadLevels is parsing and what ParseLevel made of it (nothing once the game
\* runs); lastUnlocked is g.userData.LastUnlockedLevel and nlevels is
\* len(g.levels), the number of level files that LoadLevels found
VARIABLES leveln, grid, loc, ejected, boxOn, toAnimate, animating, resetAnim,
          gopherLocked, steps, menuVisible, restartEnabled, crashed, lcPads,
          fired, events, frame, settling, parsed, lastUnlocked, nlevels

vars == <<leveln, grid, loc, ejected, boxOn, toAnimate, animating, resetAnim,
          gopherLocked, steps, menuVisible, restartEnabled, crashed, lcPads,
          fired, events, frame, settling, parsed, lastUnlocked, nlevels>>

\* Level.data of the current level
data == LevelDataOf[leveln]

\* the current state as a record
Cur ==
    [data |-> data, grid |-> grid, loc |-> loc, ejected |-> ejected,
     boxOn |-> boxOn, toAnimate |-> toAnimate, animating |-> animating,
     resetAnim |-> resetAnim, gopherLocked |-> gopherLocked, steps |-> steps,
     menuVisible |-> menuVisible, restartEnabled |-> restartEnabled,
     crashed |-> crashed, lcPads |-> lcPads, fired |-> fired,
     seqNo |-> Len(toAnimate) + 1, leveln |-> leveln,
     lastUnlocked |-> lastUnlocked]

\* the list q with seq renumbered 1, 2, ... in the same order
Ranked(q) ==
    [i \in 1..Len(q) |->
        [q[i] EXCEPT !.seq = Cardinality({j \in 1..Len(q) : q[j].seq <= q[i].seq})]]

\* the level and the game's fields are those of the record S in the next state
LevelBecomes(S) ==
    /\ lastUnlocked' = S.lastUnlocked
    /\ grid' = S.grid
    /\ loc' = S.loc
    /\ ejected' = S.ejected
    /\ boxOn' = S.boxOn
    /\ toAnimate' = Ranked(S.toAnimate)
    /\ animating' = S.animating
    /\ resetAnim' = S.resetAnim
    /\ gopherLocked' = S.gopherLocked
    /\ steps' = S.steps
    /\ menuVisible' = S.menuVisible
    /\ restartEnabled' = S.restartEnabled
    /\ crashed' = S.crashed
    /\ lcPads' = S.lcPads
    /\ fired' = S.fired

\* the next state is the record S, in the same level
Becomes(S) == leveln' = leveln /\ LevelBecomes(S)

\* GokobanGame.InitLevel(n) called from the game: level n becomes the current
\* level and is restarted. g.levels[n] is the level as NewLevel built it, or as
\* it was left when the player last went on to another level; Restart puts its
\* objects back and has the next Update drop what was pending in it.
InitLevelAt(S, n) ==
    LET L == NewLevel(ParseLevel(Levels[n + 1]))
    IN  RestartLevel([L EXCEPT !.leveln = n,
                               !.lastUnlocked = S.lastUnlocked,
                               !.gopherLocked = S.gopherLocked,
                               !.menuVisible = S.menuVisible,
                               !.steps = S.steps,
                               !.fired = S.fired])

\* GokobanGame.NextLevel
NextLevel(S) ==
    IF S.leveln < nlevels - 1 THEN InitLevelAt(S, S.leveln + 1) ELSE S

\* GokobanGame.PreviousLevel
PreviousLevel(S) ==
    IF S.leveln > 0 THEN InitLevelAt(S, S.leveln - 1) ELSE S

\* the four directions the keys W, S, A, D give step(), as (zd, xd)
Directions == {<<1, 0>>, <<0 - 1, 0>>, <<0, 1>>, <<0, 0 - 1>>}
\* the distance a tick covers
Deltas == {1, MaxDelta}

\* nothing is being parsed
NoParse == <<>>

\* the game after main has loaded the levels and initialised one of them
InitGame ==
    \E n \in 0..(Len(Levels) - 1) :
        LET S == InitLevel(Levels[n + 1])
        IN  /\ leveln = n
            /\ grid = S.grid
            /\ loc = S.loc
            /\ ejected = S.ejected
            /\ boxOn = S.boxOn
            /\ toAnimate = S.toAnimate
            /\ animating = S.animating
            /\ resetAnim = S.resetAnim
            /\ gopherLocked = S.gopherLocked
            /\ steps = S.steps
            /\ menuVisible = S.menuVisible
            /\ restartEnabled = S.restartEnabled
            /\ crashed = S.crashed
            /\ lcPads = S.lcPads
            /\ fired = S.fired
            /\ events = MaxEvents
            /\ frame = FALSE
            /\ settling = FALSE

\* with all the levels loaded, the furthest level unlocked being the one played
Init ==
    /\ InitGame
    /\ parsed = NoParse
    /\ nlevels = Len(Levels)
    /\ lastUnlocked = leveln

\* wmgr.PollEvents of RenderFrame hands one more event of this frame to its
\* handler; the render loop calls Update before RenderFrame, so that no event
\* is handled before the first Update
Polled ==
    /\ events < MaxEvents
    /\ events' = events + 1
    /\ frame' = frame
    /\ parsed' = parsed
    /\ nlevels' = nlevels

\* Level.onKey: a direction key, handled unless the gopher is locked
onKey ==
    /\ ~crashed
    /\ Polled
    /\ ~gopherLocked
    /\ steps < MaxSteps
    /\ \E d \in Directions : Becomes(step(Cur, d[1], d[2]))
    /\ settling' = settling

\* GokobanGame.onKey, KeyR
KeyR ==
    /\ ~crashed
    /\ Polled
    /\ ~menuVisible
    /\ steps > 0
    /\ Becomes(RestartLevel(Cur))
    /\ settling' = settling

\* the restart button of the controls panel, shown while the menu is hidden
RestartButton ==
    /\ ~crashed
    /\ Polled
    /\ ~menuVisible
    /\ restartEnabled
    /\ Becomes(RestartLevel(Cur))
    /\ settling' = settling

\* GokobanGame.onKey, KeyEscape; the menu button; the play button
KeyEscape ==
    /\ ~crashed
    /\ Polled
    /\ Becomes(ToggleMenu(Cur))
    /\ settling' = settling

\* GokobanGame.Update, once per frame of the render loop
Tick ==
    /\ ~crashed
    /\ events' = 0
    /\ frame' = ~frame
    /\ parsed' = parsed
    /\ nlevels' = nlevels
    /\ \E delta \in Deltas : Becomes(Update(Cur, delta))
    /\ settling' = settling

Next == onKey \/ KeyR \/ RestartButton \/ KeyEscape \/ Tick

Spec == Init /\ [][Next]_vars

\* Level.onKey for the last key of the run: a direction key handled while nothing
\* is animated and no reset is due
LastStep ==
    /\ ~crashed
    /\ ~settling
    /\ Polled
    /\ ~gopherLocked
    /\ steps < MaxSteps
    /\ toAnimate = <<>>
    /\ ~animating
    /\ ~resetAnim
    /\ \E d \in Directions : Becomes(step(Cur, d[1], d[2]))
    /\ settling' = TRUE

\* the run up to the last step, and the render loop alone after it
NextSettle ==
    \/ ~settling /\ Next
    \/ LastStep
    \/ settling /\ Tick

\* one more frame of the render loop: the steps that change frame are the
\* steps of Tick, which is possible whenever the process has not died
Frame == ~crashed /\ frame' = ~frame

\* app.Run calls GokobanGame.Update on every frame for as long as the process
\* lives, so that a frame that stays possible is run
SpecSettle == Init /\ [][NextSettle]_vars /\ WF_frame(Frame)

\* ------------------------------------------------------------------ the game across levels

\* the game with its first MaxLevels levels loaded and the user data of a new
\* player or of an earlier session: the level last played is one of the levels
\* unlocked
InitUnlock ==
    /\ InitGame
    /\ parsed = NoParse
    /\ nlevels = MaxLevels
    /\ leveln < nlevels
    /\ lastUnlocked \in leveln..nlevels

\* the button for the next level, on the panel shown while the menu is hidden.
\* The handler calls NextLevel whenever the event reaches it; whether a
\* disabled button passes the event on is the GUI library's, so that the
\* handler runs here whether the next level is unlocked or not.
NextButton ==
    /\ ~crashed
    /\ Polled
    /\ ~menuVisible
    /\ LET T == NextLevel(Cur) IN leveln' = T.leveln /\ LevelBecomes(T)
    /\ settling' = settling

\* the button for the previous level
PrevButton ==
    /\ ~crashed
    /\ Polled
    /\ ~menuVisible
    /\ LET T == PreviousLevel(Cur) IN leveln' = T.leveln /\ LevelBecomes(T)
    /\ settling' = settling

\* a direction key of a short game
ShortKey == steps < MaxPlay /\ onKey

NextUnlock ==
    ShortKey \/ KeyR \/ RestartButton \/ KeyEscape \/ Tick \/ NextButton \/ PrevButton

SpecUnlock == InitUnlock /\ [][NextUnlock]_vars

\* ------------------------------------------------------------------ the parser alone

\* the tokens of the level texts handed to the parser alone
\*   ]s     a start on a block
\*   ]xx    two boxes on a block
\*   ].o    a pad one floor above a block
\*   ex-    an elevator under a box, with a shaft glyph that is not next to it
\*   ]e--x  an elevator on a block with a shaft of two floors and a box above
Tokens ==
    { <<"]", "s">>, <<"]", "x", "x">>, <<"]", ".", "o">>, <<"e", "x", "-">>,
      <<"]", "e", "-", "-", "x">> }

\* the numbers of tokens of a row
Widths == {1, 2}

\* the level texts: up to MaxRows rows with the same number of tokens each
Texts ==
    UNION {[1..r -> [1..w -> Tokens]] : r \in 1..MaxRows, w \in Widths}

\* LoadLevels has read a level file
InitParse ==
    /\ InitGame
    /\ leveln = 0
    /\ nlevels = Len(Levels)
    /\ lastUnlocked = 0
    /\ \E t \in Texts : parsed = [text |-> t, done |-> FALSE, ld |-> <<>>]

\* LoadLevels: ld, errParse := ParseLevel(str)
ParseStep ==
    /\ ~parsed.done
    /\ parsed' = [parsed EXCEPT !.done = TRUE, !.ld = ParseLevel(parsed.text)]
    /\ UNCHANGED <<leveln, grid, loc, ejected, boxOn, toAnimate, animating,
                   resetAnim, gopherLocked, steps, menuVisible, restartEnabled,
                   crashed, lcPads, fired, events, frame, settling,
                   lastUnlocked, nlevels>>

NextParse == ParseStep

SpecParse == InitParse /\ [][NextParse]_vars

\* ------------------------------------------------------------------ properties

Movable == DOMAIN loc
Pushables == {o \in Movable : IsPushable(o)}
Elevators == {o \in Movable : o.t = "elevator"}
Boxes == {o \in Movable : o.t = "box"}

\* the animations that are enqueued and neither completed nor discarded: once
\* Restart has set resetAnim the next Update drops the whole list
Pending == IF resetAnim THEN <<>> ELSE toAnimate

\* C1: in every state in which at least one animation is pending, animating
\* is true.
C1_AnimatingWhilePending == (~crashed /\ Pending # <<>>) => animating

\* the grid cell at the location of every non-ejected gopher, box and elevator
\* holds that object, and every block is in its cell
GridHoldsObjects ==
    /\ \A o \in Movable : ~ejected[o] => Get(Cur, loc[o]) = o
    /\ \A l \in data.blocks : Get(Cur, l).t = "block"

\* C2: no two non-ejected objects have the same location, and the grid cell
\* at the location of every non-ejected object holds exactly that object.
C2_OneOccupantPerCell ==
    ~crashed =>
        /\ GridHoldsObjects
        /\ \A o1, o2 \in Movable :
               (o1 # o2 /\ ~ejected[o1] /\ ~ejected[o2]) => loc[o1] # loc[o2]
        /\ \A o \in Movable : ~ejected[o] => loc[o] \notin data.blocks

\* every tracked object is at its recorded initial location, in MapObj.loc
\* and in the grid, with the boxes off, no step counted and the latch open
Restored ==
    /\ loc[data.gopher] = data.gopherInit
    /\ Get(Cur, data.gopherInit) = data.gopher
    /\ \A i \in 1..Len(data.boxes) :
           /\ loc[data.boxes[i]] = data.boxesInit[i]
           /\ Get(Cur, data.boxesInit[i]) = data.boxes[i]
           /\ ~boxOn[data.boxes[i]]
    /\ \A e \in Elevators :
           /\ loc[e][3] = data.low[e.n]
           /\ Get(Cur, loc[e]) = e
    /\ steps = 0
    /\ ~animating

\* a transition in which Level.Restart ran: the R key, the restart button, or
\* the tick in which an ejection animation completes
Restarted == KeyR \/ RestartButton \/ (Tick /\ ~resetAnim /\ resetAnim')

\* C3: after Restart the gopher is at gopherInit, box i at boxesInit[i], every
\* elevator at its low floor, every box off, steps 0, animating false, and
\* the grid holds each of these objects at exactly that location.
C3_RestartRestores == [][Restarted => Restored']_vars

\* locations, grid, step counter, animation list and latch of S and T agree
SameBoard(S, T) ==
    /\ S.loc = T.loc
    /\ S.grid = T.grid
    /\ S.steps = T.steps
    /\ S.toAnimate = T.toAnimate
    /\ S.animating = T.animating

\* C4: step() called while animating is true changes neither the locations,
\* nor the grid, nor the step counter, nor the animation list, nor animating.
C4_StepIgnoredWhileAnimating ==
    (~crashed /\ animating) =>
        \A d \in Directions : SameBoard(step(Cur, d[1], d[2]), Cur)

\* the gopher is free to step, a step is not latched out, and the step of
\* direction d would be a move into an empty cell
CouldMove(d) ==
    LET cl == Rel(loc[data.gopher], d[1], d[2], 0)
    IN  InGrid(Cur, cl) /\ Get(Cur, cl) = Nil

\* C4 witness: a key arrives while a move is resolving, toward an empty cell
C4_Witness ==
    /\ ~crashed /\ animating /\ ~gopherLocked /\ ~resetAnim /\ toAnimate # <<>>
    /\ events < MaxEvents /\ steps < MaxSteps /\ ~ejected[data.gopher]
    /\ \E d \in Directions : CouldMove(d)

\* the neighbour in direction d is not pushable
BumpsWall(d) ==
    LET cl == Rel(loc[data.gopher], d[1], d[2], 0)
    IN  InGrid(Cur, cl) /\ Get(Cur, cl) # Nil /\ ~IsPushable(Get(Cur, cl))

\* the neighbour in direction d is pushable and the cell beyond it is occupied
BumpsPush(d) ==
    LET cl == Rel(loc[data.gopher], d[1], d[2], 0)
        cnl == Rel(loc[data.gopher], 2 * d[1], 2 * d[2], 0)
    IN  /\ InGrid(Cur, cl) /\ InGrid(Cur, cnl)
        /\ Get(Cur, cl) # Nil /\ IsPushable(Get(Cur, cl))
        /\ Get(Cur, cnl) # Nil

\* C5: a step toward a non-pushable object, or toward a pushable object with
\* an occupied cell beyond it, leaves locations, grid, step counter and
\* animating unchanged and enqueues no animation.
C5_BumpChangesNothing ==
    ~crashed =>
        \A d \in Directions :
            (BumpsWall(d) \/ BumpsPush(d)) =>
                /\ SameBoard(step(Cur, d[1], d[2]), Cur)
                /\ ~step(Cur, d[1], d[2]).crashed

\* C5 witness: after an accepted key, with the latch open, the next key would
\* push a box whose cell beyond is occupied (the bump against a block is
\* already there in the initial state of LevelRing)
C5_Witness ==
    /\ ~crashed /\ ~animating /\ ~gopherLocked /\ events > 0 /\ restartEnabled
    /\ toAnimate = <<>> /\ ~ejected[data.gopher]
    /\ \E d \in Directions : BumpsPush(d)

\* C6: for every elevator low <= high, and its floor is within [low, high].
C6_ElevatorWithinShaft ==
    \A e \in Elevators :
        /\ data.low[e.n] <= data.high[e.n]
        /\ data.low[e.n] <= loc[e][3]
        /\ loc[e][3] <= data.high[e.n]

\* C6 witness: an elevator with a shaft above it has come down again after
\* an ascent (its descent is the last animation that completed)
C6_Witness ==
    /\ ~crashed /\ ~resetAnim /\ toAnimate = <<>> /\ steps > 1
    /\ \E e \in Elevators :
           /\ data.low[e.n] < data.high[e.n]
           /\ loc[e][3] = data.low[e.n]
           /\ loc[data.gopher][3] > data.high[e.n]

\* C7: every cell the rule engine reads or writes lies inside the lattice, so
\* that no access is out of range.
C7_GridAccessInBounds == ~crashed

\* the floor an object at l comes to rest on: one above the highest occupied
\* cell below l, floor 0 when the column below l is empty
LandingFloor(S, l) ==
    LET occ == {y \in 0..(l[3] - 1) : Get(S, SetY(l, y)) # Nil}
    IN  IF occ = {} THEN 0 ELSE 1 + CHOOSE y \in occ : \A w \in occ : w <= y

\* what fall(obj) makes of the current state: with landing floor 0 the object
\* is in no cell and its completion callback restarts the level; with landing
\* floor >= 1 the object is in the landing cell and in no other, and its
\* completion callback restarts nothing
FallOutcome(o) ==
    LET F == fall(Cur, o, TRUE)
        land == LandingFloor(Cur, loc[o])
        anim == F.toAnimate[Len(F.toAnimate)]
        done == RunCallback(F, o, anim.cb)
    IN  /\ Len(F.toAnimate) = Len(toAnimate) + 1
        /\ anim.obj = o
        /\ IF land = 0
           THEN /\ Get(F, loc[o]) = Nil
                /\ \A l \in DOMAIN F.grid : F.grid[l] # o
                /\ done.resetAnim /\ done.steps = 0
                /\ done.loc[data.gopher] = data.gopherInit
           ELSE /\ F.loc[o] = SetY(loc[o], land)
                /\ \A l \in DOMAIN F.grid : F.grid[l] = o <=> l = SetY(loc[o], land)
                /\ ~done.resetAnim /\ done.steps = steps

\* the ejection animation of the gopher is pending
GopherEjecting ==
    /\ ~resetAnim
    /\ \E i \in 1..Len(toAnimate) :
           toAnimate[i].obj = data.gopher /\ toAnimate[i].cb.kind = "fallOut"

\* an ejection animation is pending
Ejecting ==
    ~resetAnim /\ \E i \in 1..Len(toAnimate) : toAnimate[i].cb.kind = "fallOut"

\* C8: when fall computes landing floor 0 the object is removed from the grid
\* (source cell cleared, no cell holds it) and the level restarts when the
\* gopher's ejection animation completes; when the landing floor is >= 1 the
\* object is placed in the landing cell and no restart is triggered.
C8_EjectionOnFloorZero ==
    /\ [](~crashed /\ ~resetAnim =>
            \A o \in Pushables : (~ejected[o] /\ Get(Cur, loc[o]) = o) => FallOutcome(o))
    /\ [][(GopherEjecting /\ ~GopherEjecting') =>
              (crashed' \/ (resetAnim' /\ steps' = 0
                            /\ loc'[data.gopher] = data.gopherInit))]_vars
    /\ [][(Tick /\ ~resetAnim /\ resetAnim') => Ejecting]_vars

\* C8 witness: the gopher has fallen out of the level and its ejection
\* animation completes with the next long tick, while a box stands in a cell
\* it could fall from
C8_Witness ==
    /\ ~crashed /\ GopherEjecting /\ ejected[data.gopher]
    /\ \E i \in 1..Len(toAnimate) :
           /\ toAnimate[i].obj = data.gopher
           /\ toAnimate[i].rem < MaxDelta
    /\ \E o \in Boxes : ~ejected[o] /\ LandingFloor(Cur, loc[o]) >= 1

\* every recorded pad location of S holds a box
AllPadsHoldBox(S) ==
    \A i \in 1..Len(S.data.pads) : Get(S, S.data.pads[i]).t = "box"

C10_CompletionSignalled ==
    (~crashed /\ ~resetAnim /\ ~animating /\ toAnimate = <<>>
     /\ Len(data.pads) > 0 /\ AllPadsHoldBox(Cur)) =>
        /\ \A i \in 1..Len(data.pads) : boxOn[Get(Cur, data.pads[i])]
        /\ lcPads = [i \in 1..Len(data.pads) |-> Get(Cur, data.pads[i])]


\* C11: the step counter increases by exactly 1 with each accepted step that
\* moves the gopher and is unchanged by a bump, by a step rejected while
\* animating, by falls and by elevator motion (the ticks); Restart sets it to 0.
C11_StepCounter ==
    [][/\ onKey => (crashed' \/ steps' = steps + (IF loc'[data.gopher] # loc[data.gopher]
                                                  THEN 1 ELSE 0))
       /\ Restarted => steps' = 0
       /\ (Tick /\ ~(~resetAnim /\ resetAnim')) => steps' = steps
       /\ KeyEscape => steps' = steps]_vars

\* C11 witness: steps were counted, and since then the gopher has ridden
\* an elevator up and has come to rest
C11_Witness ==
    /\ ~crashed /\ ~resetAnim /\ ~animating /\ toAnimate = <<>> /\ steps >= 2
    /\ \E e \in Elevators :
           /\ loc[e][3] > data.low[e.n]
           /\ loc[data.gopher] = Rel(loc[e], 0, 0, 1)


\* the occupant of cell l in the grid g
Occupant(g, l) == IF l \in DOMAIN g THEN g[l] ELSE Nil

\* C20: a transition is applied when the step is issued, not when its
\* animation completes: right after an accepted step, before any tick, the
\* destination cell holds the gopher, the source cell no longer holds it and a
\* pushed box already occupies the cell beyond; what waits for the completion
\* callbacks is the follow-up (the gopher has not fallen yet, and the callbacks
\* of the gopher and of the pushed box are still queued).
C20_AppliedAtIssuance ==
    [][(onKey /\ steps' = steps + 1 /\ ~crashed') =>
        \E d \in Directions :
            LET gopher == data.gopher
                src == loc[gopher]
                cl == Rel(src, d[1], d[2], 0)
                cnl == Rel(src, 2 * d[1], 2 * d[2], 0)
                c == Occupant(grid, cl)
                n == Len(toAnimate')
            IN  /\ loc'[gopher] = cl
                /\ Occupant(grid', cl) = gopher
                /\ Occupant(grid', src) # gopher
                /\ c # Nil => /\ loc'[c] = cnl
                              /\ Occupant(grid', cnl) = c
                /\ n > Len(toAnimate)
                /\ SubSeq(toAnimate', 1, Len(toAnimate)) = toAnimate
                /\ toAnimate'[n].obj = gopher
                /\ toAnimate'[n].cb.kind = "gopherMove"
                /\ toAnimate'[n].rem = 1
                /\ c # Nil => \E i \in (Len(toAnimate) + 1)..(n - 1) :
                                  /\ toAnimate'[i].obj = c
                                  /\ toAnimate'[i].cb.kind = "boxMoveFirst"
                                  /\ toAnimate'[i].rem = 1]_vars

\* C20 witness: a push was issued and no tick has run since: the box and the
\* gopher already stand in their new cells while both animations are whole
C20_Witness ==
    /\ ~crashed /\ ~resetAnim /\ animating /\ events > 0 /\ Len(toAnimate) = 2
    /\ toAnimate[1].cb.kind = "boxMoveFirst" /\ toAnimate[1].rem = 1
    /\ toAnimate[2].cb.kind = "gopherMove" /\ toAnimate[2].rem = 1
    /\ Occupant(grid, toAnimate[2].dest) = data.gopher
    /\ Occupant(grid, toAnimate[1].dest) = toAnimate[1].obj
    /\ Dist(toAnimate[1].dest, toAnimate[2].dest) = 1


RECURSIVE StackFrom(_, _)
\* the contiguous pile of pushable objects from cell l upward, lowest first
StackFrom(g, l) ==
    IF Occupant(g, l) = Nil \/ ~IsPushable(Occupant(g, l)) THEN <<>>
    ELSE <<Occupant(g, l)>> \o StackFrom(g, Rel(l, 0, 0, 1))

\* the number of objects at the bottom of the pile standing at cl that a
\* push toward cnl moves: those below the first one whose destination is taken
Movers(g, cl, cnl) ==
    LET H == Len(StackFrom(g, cl))
        taken == {k \in 1..H : Occupant(g, Rel(cnl, 0, 0, k - 1)) # Nil}
    IN  IF taken = {} THEN H ELSE (CHOOSE k \in taken : \A j \in taken : k <= j) - 1

\* C19: push-chain rule. When a push is accepted, every object of the
\* contiguous pile of pushables above the pushed object moves one cell in the
\* push direction as long as its destination on its own floor is empty; the
\* first object whose destination is occupied, and every pushable above it,
\* keeps its horizontal position and is handed to gravity only by the
\* completion callback of the first moved object.
C19_PushChain ==
    [][(onKey /\ steps' = steps + 1 /\ ~crashed') =>
        \A d \in Directions :
            LET src == loc[data.gopher]
                cl == Rel(src, d[1], d[2], 0)
                cnl == Rel(src, 2 * d[1], 2 * d[2], 0)
                pile == StackFrom(grid, cl)
                m == Movers(grid, cl, cnl)
                n == Len(toAnimate)
            IN  (loc'[data.gopher] = cl /\ pile # <<>>) =>
                    /\ m >= 1
                    /\ \A k \in 1..Len(pile) :
                           loc'[pile[k]] = IF k <= m THEN Rel(cnl, 0, 0, k - 1)
                                           ELSE loc[pile[k]]
                    /\ Len(toAnimate') = n + m + 1
                    /\ \A k \in 1..m : toAnimate'[n + k].obj = pile[k]
                    /\ toAnimate'[n + 1].cb.toFall = SubSeq(pile, m + 1, Len(pile))
                    /\ \A k \in 2..m : toAnimate'[n + k].cb.toFall = <<>>]_vars

\* C19 witness: a push was issued on a pile whose upper part is held back: the
\* first moved box's callback holds the objects that are to fall
C19_Witness ==
    /\ ~crashed /\ ~resetAnim /\ animating
    /\ \E i \in 1..Len(toAnimate) :
           /\ toAnimate[i].cb.kind = "boxMoveFirst"
           /\ toAnimate[i].rem = 1
           /\ Len(toAnimate[i].cb.toFall) = 2
           /\ \A j \in 1..2 : loc[toAnimate[i].cb.toFall[j]] =
                                  Rel(loc[data.gopher], 0, 0, j)


\* C13: an elevator with range [low, low + 2] and nothing on top ascends
\* fully to high when its ascent is triggered (elevate), and a further trigger
\* once it stands at high produces zero ascent: no location changes and
\* nothing fails.
C13_EmptyElevatorAscends ==
    ~crashed =>
        \A e \in Elevators :
            LET low == data.low[e.n]
                high == data.high[e.n]
                c == getCargo(Cur, e)
                E == elevate(Cur, e)
            IN  (high = low + 2 /\ ~c.failed /\ c.cargo = <<>>) =>
                    /\ (/\ loc[e][3] = low
                        /\ \A y \in (low + 1)..high : Get(Cur, SetY(loc[e], y)) = Nil)
                           => (~E.crashed /\ E.loc[e] = SetY(loc[e], high))
                    /\ loc[e][3] = high
                           => (~E.crashed /\ E.loc = loc /\ E.toAnimate = toAnimate)


\* a level that was just (re)started and is ready for input
Fresh ==
    /\ ~crashed /\ ~gopherLocked /\ ~animating /\ ~resetAnim /\ toAnimate = <<>>
    /\ steps = 0 /\ loc[data.gopher] = data.gopherInit

\* the key Right steps opposite to the key Left, whatever the camera
Opposite(d) == <<0 - d[1], 0 - d[2]>>

\* a step left (direction d), the ticks that settle it, a step right, the
\* ticks that settle it: the step counts after each key and the final state
LeftThenRight(d) ==
    LET A == KeyStep(Cur, d)
        B == Settle(A, MaxSettle)
        C == KeyStep(B, Opposite(d))
        D == Settle(C, MaxSettle)
    IN  [afterLeft |-> A.steps, afterRight |-> C.steps, end |-> D]

\* the scenario ends at the start location with two steps and no bump
BackAtStart(r) ==
    /\ ~r.end.crashed
    /\ r.end.toAnimate = <<>>
    /\ r.end.loc[data.gopher] = data.gopherInit
    /\ r.afterLeft = 1 /\ r.afterRight = 2 /\ r.end.steps = 2

\* C12 as first stated: for the level parsed from the one-row text `]]s]]`, a
\* step left followed, once settled, by a step right returns the gopher to its
\* start location with step counter = 2 and no bump.
C12_ColumnLeftRight ==
    (Levels[leveln + 1] = LevelColumn /\ Fresh) =>
        \A d \in Directions : BackAtStart(LeftThenRight(d))

\* C12: for the level parsed from the one-row text `] ]s ]` and a camera under
\* which left and right run along the row, a step left followed, once settled,
\* by a step right returns the gopher to its start location with step counter
\* = 2 and no bump.
C12_WalkLeftRight ==
    (Levels[leveln + 1] = LevelWalk /\ Fresh) =>
        \A d \in {<<0, 0 - 1>>, <<0, 1>>} : BackAtStart(LeftThenRight(d))

\* C12 witness: in that level the gopher stands settled on its start cell
\* after two counted steps
C12_Witness ==
    /\ Levels[leveln + 1] = LevelWalk
    /\ ~crashed /\ ~animating /\ ~resetAnim /\ toAnimate = <<>>
    /\ steps = 2 /\ loc[data.gopher] = data.gopherInit
    /\ \E d \in {<<0, 0 - 1>>, <<0, 1>>} :
           Get(Cur, Rel(data.gopherInit, d[1], d[2], 0 - 1)).t = "block"


\* the number of `s` glyphs in a level text
Starts(text) ==
    LET glyphs == Flatten(Flatten(text))
    IN  Cardinality({i \in 1..Len(glyphs) : glyphs[i] = START})

\* ParseLevel accepts the text with exactly one Gopher in the grid when the
\* text holds one `s`, and returns an error when it holds none or several
ParsedAsClaimed(text) ==
    LET ld == ParseLevel(text)
        gophers == {l \in DOMAIN ld.grid : ld.grid[l].t = "gopher"}
    IN  IF Starts(text) = 1
        THEN ~ld.err /\ ~ld.failed /\ Cardinality(gophers) = 1
        ELSE ld.err

\* the texts handed to ParseLevel: the level being played and a text without
\* a start
ParseInputs == {Levels[leveln + 1], LevelNoStart}

\* C14: exactly one Gopher occupant exists after parsing: ParseLevel returns
\* an error for a description with zero `s` glyphs and for one with two or more,
\* and otherwise succeeds with exactly one Gopher in the grid.
C14_ParseRejects == \A text \in ParseInputs : ParsedAsClaimed(text)


\* C15: Restart cancels the pending animations without running their
\* callbacks: no callback of an animation that was queued before a Restart is
\* run after that Restart, whether the Restart came between two ticks or from
\* inside a completion callback during a tick.
C15_RestartCancelsCallbacks == \A i \in 1..Len(fired) : ~fired[i].stale

\* C15 witness: the level was restarted while animations were pending; they
\* are still in the list, which the next Update drops
C15_Witness ==
    /\ ~crashed /\ resetAnim /\ events > 0
    /\ \E i \in 1..Len(toAnimate) : toAnimate[i].stale /\ toAnimate[i].rem = 0


\* the place in the pending list of the animation queued as number q
PosOf(q) == CHOOSE k \in 1..Len(toAnimate) : toAnimate[k].seq = q

\* the callbacks an Update ran belong to animations of the list whose
\* remaining distance the tick (of some distance delta) covered
RanAtTarget ==
    \E delta \in Deltas :
        \A i \in 1..Len(fired') :
            \E k \in 1..Len(toAnimate) :
                toAnimate[k].seq = fired'[i].seq /\ toAnimate[k].rem < delta

\* C16 as first stated: completion callbacks are run in the order in which
\* their animations were queued, each only after its own animation has reached
\* its target, for any set of pending animations, also of different travel
\* distances: the callbacks of one tick run in queueing order, and no callback
\* runs while an animation queued before its own is still pending.
C16_CallbacksInQueueingOrder ==
    [][(Tick /\ ~resetAnim /\ ~resetAnim' /\ ~crashed') =>
        /\ RanAtTarget
        /\ \A i, j \in 1..Len(fired') : i < j => fired'[i].seq < fired'[j].seq
        /\ \A i \in 1..Len(fired') : \A k \in 1..Len(toAnimate) :
               toAnimate[k].seq < fired'[i].seq =>
                   \E j \in 1..Len(fired') : fired'[j].seq = toAnimate[k].seq]_vars

\* C16: the completion callbacks that run during one tick run in the order of
\* the pending list, each only after its own animation has reached its target;
\* an animation that reaches its target on an earlier tick has its callback run
\* on that tick, also when it was queued later than one still pending.
C16_CallbacksInListOrder ==
    [][(Tick /\ ~resetAnim /\ ~crashed') =>
        /\ RanAtTarget
        /\ \A i, j \in 1..Len(fired') :
               i < j => PosOf(fired'[i].seq) < PosOf(fired'[j].seq)]_vars

\* C16 witness: the last Update ran two callbacks and kept an animation
C16_Witness ==
    /\ ~crashed /\ ~resetAnim /\ events = 0 /\ Len(fired) >= 2 /\ toAnimate # <<>>

\* C17: the callback of a queued animation is run exactly once unless a
\* Restart discards the animation: it is run on the tick on which the animation
\* reaches its target, the animation leaves the pending list on that tick and
\* is not updated again; an animation that has not reached its target stays,
\* nearer by what the tick covered. With a reset pending the list is dropped
\* and nothing is run; after a callback has restarted the level nothing more
\* is run.
C17_FiresOnceAndLeaves ==
    [][(Tick /\ ~crashed') =>
        IF resetAnim THEN fired' = <<>> /\ toAnimate' = <<>>
        ELSE \E delta \in Deltas :
            LET n == Len(toAnimate)
                done == {k \in 1..n : toAnimate[k].rem < delta}
                waits == (1..n) \ done
                ran == {fired'[i].seq : i \in 1..Len(fired')}
                \* the waiting animation that is number r in queueing order
                waiting(r) == CHOOSE k \in waits :
                    Cardinality({m \in waits : toAnimate[m].seq <= toAnimate[k].seq}) = r
            IN  /\ Len(fired') = Cardinality(ran)
                /\ ran \subseteq {toAnimate[k].seq : k \in done}
                /\ ~resetAnim' =>
                    /\ ran = {toAnimate[k].seq : k \in done}
                    /\ Len(toAnimate') >= Cardinality(waits)
                    /\ \A r \in 1..Cardinality(waits) :
                           \E m \in 1..Len(toAnimate') :
                               toAnimate'[m] = [toAnimate[waiting(r)] EXCEPT
                                                   !.rem = @ - delta, !.seq = r]]_vars

\* C17 witness: the last Update ran a callback and kept an animation that is
\* part of its way to the target
C17_Witness ==
    /\ ~crashed /\ ~resetAnim /\ events = 0 /\ fired # <<>>
    /\ \E i \in 1..Len(toAnimate) :
           toAnimate[i].cb.kind = "fallOut" /\ toAnimate[i].rem < 20

\* C18: after a step that was handled while nothing was animated, animating was
\* false and no reset was due, and that only ticks follow, a state is reached
\* in which no animation is pending and animating is false
C18_QuiescenceReached ==
    settling ~> (toAnimate = <<>> /\ ~animating)

\* the only runs of SpecSettle that do not reach it are those in which the
\* process has died
QuiescentUnlessDied ==
    settling ~> ((toAnimate = <<>> /\ ~animating) \/ crashed)

\* the cells of the columns in which the gopher, a box or an elevator stands
Lattice ==
    {SetY(loc[o], y) : o \in DOMAIN loc, y \in 0..(data.nfloors - 1)}

\* every cell of pos's column from floor f up to just below pos is empty
EmptyFrom(f, pos) == \A y \in f..(pos[3] - 1) : Get(Cur, SetY(pos, y)) = Nil

\* the lowest floor f <= pos.y with every cell from f to pos.y - 1 empty
LowestFree(pos) ==
    CHOOSE f \in 0..pos[3] :
        EmptyFrom(f, pos) /\ \A g \in 0..(f - 1) : ~EmptyFrom(g, pos)

\* C21: for every cell pos of a column that holds an object, posAfterFallFrom(pos) is the cell of
\* the same column at the lowest floor f <= pos.y such that every cell from f
\* to pos.y - 1 is empty: pos itself when the cell below is occupied, floor 0
\* when the whole column below is empty
C21_PosAfterFall ==
    ~crashed =>
        \A pos \in Lattice :
            LET pfall == posAfterFallFrom(Cur, pos)
            IN  /\ pfall = SetY(pos, LowestFree(pos))
                /\ (pos[3] > 0 /\ Get(Cur, Rel(pos, 0, 0, 0 - 1)) # Nil => pfall = pos)
                /\ (EmptyFrom(0, pos) => pfall[3] = 0)

\* a fall is under way whose target was found above an obstruction, some way
\* below where the object stood, while another column is empty down to floor 0
C21_Witness ==
    /\ ~crashed
    /\ \E i \in 1..Len(toAnimate) :
           /\ toAnimate[i].cb.kind = "fallIn"
           /\ toAnimate[i].rem > 0
           /\ posAfterFallFrom(Cur, toAnimate[i].dest) = toAnimate[i].dest
           /\ toAnimate[i].dest[3] > 0
    /\ \E pos \in Lattice : pos[3] > 1 /\ posAfterFallFrom(Cur, pos)[3] = 0
    /\ \E pos \in Lattice :
           posAfterFallFrom(Cur, pos)[3] > 0 /\ posAfterFallFrom(Cur, pos)[3] < pos[3]

\* the number of consecutive empty cells of the lattice directly above l
FreeAbove(l) ==
    CHOOSE n \in 0..data.nfloors :
        /\ \A k \in 1..n : InGrid(Cur, Rel(l, 0, 0, k)) /\ Get(Cur, Rel(l, 0, 0, k)) = Nil
        /\ ~(InGrid(Cur, Rel(l, 0, 0, n + 1)) /\ Get(Cur, Rel(l, 0, 0, n + 1)) = Nil)

\* the pushable objects stacked directly on the elevator e, lowest first
CargoOf(e) == StackFrom(grid, Rel(loc[e], 0, 0, 1))

\* what the ascent of e has to be: elevator and cargo up by amount, nothing
\* else moved
AscendsBy(T, e, amount) ==
    LET cargo == CargoOf(e)
        lifted == {e} \cup {cargo[i] : i \in 1..Len(cargo)}
    IN  \A o \in DOMAIN loc :
            T.loc[o] = IF o \in lifted THEN Rel(loc[o], 0, 0, amount) ELSE loc[o]

\* the ascent of an elevator with cargo: min(high - floor, free cells above
\* the topmost cargo object)
Headroom(e) ==
    LET cargo == CargoOf(e)
        range == data.high[e.n] - loc[e][3]
        free == FreeAbove(loc[cargo[Len(cargo)]])
    IN  IF range < free THEN range ELSE free

\* C22: elevate moves the elevator and every cargo object up by the same
\* amount, min(high - current floor, number of consecutive empty cells directly
\* above the topmost cargo object); when that amount is zero no location changes
C22_AscentByHeadroom ==
    ~crashed =>
        \A e \in Elevators :
            CargoOf(e) # <<>> =>
                LET T == elevate(Cur, e)
                IN  ~T.crashed /\ AscendsBy(T, e, Headroom(e))

\* the same, for the calls of elevate that the process survives
AscentUnlessDied ==
    ~crashed =>
        \A e \in Elevators :
            CargoOf(e) # <<>> =>
                LET T == elevate(Cur, e)
                IN  T.crashed \/ AscendsBy(T, e, Headroom(e))

\* the lowest floor f >= low such that every cell from f up to just below the
\* elevator e is empty
LowestReach(e) ==
    CHOOSE f \in data.low[e.n]..loc[e][3] :
        /\ EmptyFrom(f, loc[e])
        /\ \A g \in data.low[e.n]..(f - 1) : ~EmptyFrom(g, loc[e])

\* T is the state with the elevator e lowered to LowestReach(e) by one
\* animation, or the state as it is when that is where e stands
LoweredInOne(S, T, e) ==
    IF LowestReach(e) = loc[e][3] THEN T = S
    ELSE /\ T.loc = [loc EXCEPT ![e] = SetY(loc[e], LowestReach(e))]
         /\ Len(T.toAnimate) = Len(S.toAnimate) + 1
         /\ LET a == T.toAnimate[Len(T.toAnimate)]
            IN  a.obj = e /\ a.dest = T.loc[e] /\ a.rem = loc[e][3] - LowestReach(e)

\* the moves of the gopher that are under way, as their callbacks hold them
GopherMoves == {i \in 1..Len(toAnimate) : toAnimate[i].cb.kind = "gopherMove"}

\* the elevator in the cell l, if there is one
ElevatorAt(l) == IF Get(Cur, l).t = "elevator" THEN {Get(Cur, l)} ELSE {}

C23_WitnessBeneath ==
    /\ ~crashed
    /\ \E i \in GopherMoves :
           \E e \in ElevatorAt(Rel(toAnimate[i].cb.oldloc, 0, 0, 1)) :
               CargoOf(e) = <<>>

\* C24: in every state with no pending animation a box is in the on state
\* exactly when its location is a recorded pad location
C24_BoxOnIffOnPad ==
    (~crashed /\ toAnimate = <<>>) =>
        \A b \in Boxes : ~ejected[b] => (boxOn[b] <=> IsPad(Cur, loc[b]))

\* the glyphs of the level text at the lattice cell l: the glyph of floor l[3]
\* of the token l[2] of the row l[1], rows and tokens counted from 1
GlyphsAt(text, l) ==
    IF /\ l[1] \in 1..Len(text)
       /\ l[2] \in 1..Len(text[l[1]])
       /\ l[3] + 1 \in 1..Len(text[l[1]][l[2]])
    THEN {text[l[1]][l[2]][l[3] + 1]}
    ELSE {}

\* the cells of a lattice of the given size
Cells(nrows, ncols, nfloors) ==
    {<<z, x, y>> : z \in 0..(nrows - 1), x \in 0..(ncols - 1), y \in 0..(nfloors - 1)}

\* C25: for a text of R rows, C columns and longest token length L, ParseLevel
\* yields a lattice of (R+2) x (C+2) x (L+2) cells whose first and last row and
\* first and last column are empty at every floor, and in which every input
\* cell keeps its content, one row and one column further on
C25_PaddedLattice ==
    parsed # NoParse /\ parsed.done =>
        LET text == parsed.text
            ld == parsed.ld
            R == Len(text)
            C == Len(text[1])
            L == MaxTokenLen(Flatten(text), 0)
        IN  /\ ~ld.failed
            /\ ld.nrows = R + 2 /\ ld.ncols = C + 2 /\ ld.nfloors = L + 2
            /\ DOMAIN ld.grid \subseteq Cells(ld.nrows, ld.ncols, ld.nfloors)
            /\ \A l \in Cells(ld.nrows, ld.ncols, ld.nfloors) :
                   /\ (l[1] \in {0, R + 1} \/ l[2] \in {0, C + 1}) => l \notin DOMAIN ld.grid
                   /\ l \in DOMAIN ld.grid <=>
                          \E c \in GlyphsAt(text, l) : GlyphType(c) # "nil"
                   /\ l \in DOMAIN ld.grid =>
                          \A c \in GlyphsAt(text, l) : ld.grid[l].t = GlyphType(c)

\* a text of two rows and two columns whose longest token has five glyphs has
\* been parsed, and its second row holds an object
C25_Witness ==
    /\ parsed # NoParse /\ parsed.done
    /\ Len(parsed.text) = 2 /\ Len(parsed.text[1]) = 2
    /\ parsed.ld.nfloors = 7
    /\ \E l \in DOMAIN parsed.ld.grid : l[1] = 2 /\ l[2] = 2 /\ l[3] = 4

\* the number of consecutive shaft glyphs of the token from glyph n + 1 on
\* (glyphs counted from 1)
ShaftGlyphs(token, n) ==
    CHOOSE m \in 0..(Len(token) - n) :
        /\ \A i \in 1..m : token[n + i] = ELEVATOR_SHAFT
        /\ ~(n + m + 1 <= Len(token) /\ token[n + m + 1] = ELEVATOR_SHAFT)

\* C26: for an `e` glyph at floor k of a token, ParseLevel creates an elevator
\* at floor k with low = k and high = k + the number of consecutive `-` glyphs
\* immediately above it in the token, so that low <= high, and high = low when
\* no shaft glyph follows; the shaft cells are left empty
C26_ElevatorRange ==
    parsed # NoParse /\ parsed.done =>
        LET text == parsed.text
            ld == parsed.ld
        IN  \A r \in 1..Len(text) : \A c \in 1..Len(text[r]) :
                \A n \in 1..Len(text[r][c]) :
                    text[r][c][n] = ELEVATOR =>
                        LET k == n - 1
                            m == ShaftGlyphs(text[r][c], n)
                            l == <<r, c, k>>
                        IN  /\ l \in DOMAIN ld.grid
                            /\ ld.grid[l].t = "elevator"
                            /\ ld.grid[l].n \in DOMAIN ld.low
                            /\ ld.low[ld.grid[l].n] = k
                            /\ ld.high[ld.grid[l].n] = k + m
                            /\ ld.low[ld.grid[l].n] <= ld.high[ld.grid[l].n]
                            /\ \A i \in 1..m : <<r, c, k + i>> \notin DOMAIN ld.grid

\* a text with two elevators has been parsed: one with a shaft of two floors,
\* one whose only shaft glyph is not next to it
C26_Witness ==
    /\ parsed # NoParse /\ parsed.done
    /\ \E a, b \in DOMAIN parsed.ld.low :
           /\ parsed.ld.low[a] = 1 /\ parsed.ld.high[a] = 3
           /\ parsed.ld.low[b] = 0 /\ parsed.ld.high[b] = 0

\* the cell a comes before the cell b in the scan: by row, then column, then floor
ScannedBefore(a, b) ==
    \/ a[1] < b[1]
    \/ a[1] = b[1] /\ a[2] < b[2]
    \/ a[1] = b[1] /\ a[2] = b[2] /\ a[3] < b[3]

\* C27: the box start locations are recorded in scan order (row, then column,
\* then floor) and the level's box list is built in the same order: for every i
\* the box that Restart moves to boxesInit[i] is the box parsed at boxesInit[i]
C27_BoxesInScanOrder ==
    parsed # NoParse /\ parsed.done =>
        LET ld == parsed.ld
            L == NewLevel(ld)
            T == restartBoxes(L, 1)
        IN  /\ Len(L.data.boxes) = Len(ld.boxesInit)
            /\ \A i, j \in 1..Len(ld.boxesInit) :
                   i < j => ScannedBefore(ld.boxesInit[i], ld.boxesInit[j])
            /\ \A i \in 1..Len(ld.boxesInit) :
                   /\ ld.boxesInit[i] \in DOMAIN ld.grid
                   /\ ld.grid[ld.boxesInit[i]] = L.data.boxes[i]
                   /\ T.loc[L.data.boxes[i]] = ld.boxesInit[i]

\* a text has been parsed whose boxes stand in two rows, in two columns of one
\* row and on two floors of one column
C27_Witness ==
    /\ parsed # NoParse /\ parsed.done
    /\ \E i, j, k, m \in 1..Len(parsed.ld.boxesInit) :
           LET b == parsed.ld.boxesInit
           IN  /\ b[i][1] < b[j][1] /\ b[i][2] > b[j][2]
               /\ b[j][1] = b[k][1] /\ b[j][2] < b[k][2] /\ b[j][3] > b[k][3]
               /\ b[k][1] = b[m][1] /\ b[k][2] = b[m][2] /\ b[k][3] < b[m][3]

\* C28: while the menu is visible the gopher is locked, in every reachable
\* state, also after a restart that an ejection brought about while the menu
\* was open
C28_MenuLocksGopher == menuVisible => gopherLocked

\* an ejection has just ended in a restart while the menu was open
C28_Witness ==
    /\ ~crashed /\ menuVisible /\ gopherLocked
    /\ resetAnim /\ fired # <<>> /\ steps = 0 /\ events = 0

\* the animation a is in the list q
Listed(q, a) ==
    \E j \in 1..Len(q) : q[j].obj = a.obj /\ q[j].dest = a.dest /\ q[j].cb = a.cb

\* C29: a step accepted after a Restart is not cancelled by that Restart: the
\* animation it queued (one that is not stale) is not dropped by the tick that
\* finds the reset flag set; after that tick it is still pending or its
\* callback has run, and animating is not left set with nothing pending
C29_StepAfterRestartKept ==
    [][(Tick /\ resetAnim /\ ~crashed') =>
          /\ \A i \in 1..Len(toAnimate) :
                 ~toAnimate[i].stale =>
                     Listed(toAnimate', toAnimate[i]) \/ fired' # <<>>
          /\ (animating' => toAnimate' # <<>>)]_vars

\* the level being played has one start, and its gopher and boxes all stand
\* on something when the level is built
InitiallySupported ==
    LET L == NewLevel(ParseLevel(Levels[leveln + 1]))
    IN  /\ Starts(Levels[leveln + 1]) = 1
        /\ \A o \in DOMAIN L.loc :
               IsPushable(o) => Get(L, Rel(L.loc[o], 0, 0, 0 - 1)) # Nil

\* C30: in every state with no pending animation, reached in a level with one
\* start whose gopher and boxes all stand on something at the start, every
\* gopher and box that has not been ejected has a non-empty cell directly
\* beneath it
C30_NoFloatingObjects ==
    (~crashed /\ toAnimate = <<>> /\ InitiallySupported) =>
        \A o \in Pushables :
            ~ejected[o] => Get(Cur, Rel(loc[o], 0, 0, 0 - 1)) # Nil

\* the ejection animation of object o is in the list q and was not cancelled
EjectionOf(q, o) ==
    \E i \in 1..Len(q) : q[i].obj = o /\ q[i].cb.kind = "fallOut" /\ ~q[i].stale

\* a level restart has run in the step: the reset of the animations is due, the
\* step counter is zero and the gopher is back at its start
RestartRan ==
    /\ resetAnim'
    /\ steps' = 0
    /\ loc'[data.gopher] = data.gopherInit
    /\ ~ejected'[data.gopher]

\* C31: the ejection of any object, a box as well as the gopher, is a level
\* failure: a fall from a cell with an empty column beneath locks the player's
\* input, the input is locked in the state in which the ejection animation is
\* first pending, and a level restart runs on the tick on which that
\* animation completes.
C31_EjectionFailsLevel ==
    /\ [](~crashed /\ ~resetAnim =>
            \A o \in Pushables :
                (~ejected[o] /\ Get(Cur, loc[o]) = o /\ LandingFloor(Cur, loc[o]) = 0)
                    => fall(Cur, o, TRUE).gopherLocked)
    /\ [][\A o \in Pushables :
              (~EjectionOf(toAnimate, o) /\ EjectionOf(toAnimate', o)
               /\ ~resetAnim' /\ ~crashed') => gopherLocked']_vars
    /\ [][\A o \in Pushables :
              (Tick /\ ~resetAnim /\ EjectionOf(toAnimate, o)
               /\ ~EjectionOf(toAnimate', o)) => (crashed' \/ RestartRan)]_vars

\* C31 witness: a box has been ejected while the gopher stays in the level, the
\* input is locked with the menu hidden, and the box's ejection animation
\* completes with the next long tick
C31_Witness ==
    /\ ~crashed /\ ~resetAnim /\ gopherLocked /\ ~menuVisible
    /\ ~ejected[data.gopher]
    /\ \E i \in 1..Len(toAnimate) :
           /\ toAnimate[i].obj \in Boxes
           /\ toAnimate[i].cb.kind = "fallOut"
           /\ ~toAnimate[i].stale
           /\ toAnimate[i].rem < MaxDelta

\* an ejection is under way: its animation is pending and the Restart that its
\* callback calls has not run
EjectionUnderWay == ~resetAnim /\ \E o \in Pushables : EjectionOf(toAnimate, o)

\* C32: from the moment a fall is issued as an ejection until the Restart it
\* triggers has run, no player step is accepted, whatever ticks, key presses
\* and menu toggles come in between: in a level with one start, a direction key
\* handled while an ejection is under way changes neither the step counter nor
\* the grid and queues no animation.
C32_NoStepWhileEjecting ==
    [][(Starts(Levels[leveln + 1]) = 1 /\ EjectionUnderWay /\ onKey) =>
          (steps' = steps /\ grid' = grid /\ toAnimate' = toAnimate)]_vars

\* a direction key handled during the ejection of the gopher itself is ignored:
\* animating stays set from the gopher's fall until the Restart
NoStepWhileGopherEjecting ==
    [][(EjectionOf(toAnimate, data.gopher) /\ ~resetAnim /\ onKey) =>
          (steps' = steps /\ grid' = grid /\ toAnimate' = toAnimate)]_vars

\* what LevelComplete makes of the current state: one more level unlocked when
\* the level being played is the last one unlocked, none otherwise
UnlocksOne ==
    LevelComplete(Cur).lastUnlocked =
        IF leveln = lastUnlocked THEN lastUnlocked + 1 ELSE lastUnlocked

\* C33: LastUnlockedLevel never decreases and never exceeds the number of
\* levels; a level-complete signal increments it by exactly one only when the
\* current level index equals LastUnlockedLevel, and leaves it as it is
\* otherwise: it changes only on a tick of the level that was the last one
\* unlocked, on which the signal was given, and then to that level's index
\* plus one, so that completing the same level again unlocks nothing more.
C33_UnlockedLevel ==
    /\ [](lastUnlocked \in 0..nlevels /\ leveln \in 0..(nlevels - 1))
    /\ [](~crashed => UnlocksOne)
    /\ [][lastUnlocked' >= lastUnlocked]_vars
    /\ [][lastUnlocked' # lastUnlocked =>
              /\ Tick
              /\ leveln = lastUnlocked /\ leveln' = leveln
              /\ lastUnlocked' = leveln + 1
              /\ lcPads' # NoSignal]_vars
    /\ [][(leveln' = leveln /\ lastUnlocked > leveln) =>
              lastUnlocked' = lastUnlocked]_vars

\* C33 witness: the level-complete signal was given in a level that is not the
\* last one unlocked, and the levels unlocked are those unlocked before: the
\* signal of this level alone would have unlocked the next level only
C33_Witness ==
    /\ ~crashed /\ lcPads # NoSignal /\ levelComplete(Cur)
    /\ lastUnlocked > leveln + 1

\* the signal was given in the last level unlocked, and the level has been
\* restarted since: one more level is unlocked
C33_WitnessUnlocked ==
    /\ ~crashed /\ lcPads # NoSignal /\ steps = 0 /\ ~resetAnim
    /\ lastUnlocked = leveln + 1

\* Restart applied to any state of a level of the short game puts the gopher,
\* the boxes and the elevators where NewLevel put them: a level left for
\* another one is the level as built when it is entered again
RestartRebuilds ==
    ~crashed =>
        LET R == Restart(Cur)
            L == NewLevel(ParseLevel(Levels[leveln + 1]))
        IN  /\ R.grid = L.grid /\ R.loc = L.loc
            /\ R.boxOn = L.boxOn /\ R.ejected = L.ejected

====
